---- MODULE Spec2Model ----
(***************************************************************************)
(* Water sort puzzle solver: the depth-first search engine (wsp_lib/dfs.py) *)
(* run over abstract state graphs (the State/Action contract of            *)
(* wsp_lib/graph_base.py, as realised by MockState of tests/test_dfs.py),  *)
(* and the puzzle state model (wsp_lib/wsp_graph.py).                       *)
(***************************************************************************)
EXTENDS Integers, Sequences, FiniteSets, TLC

(***************************************************************************)
(* Bounds of the explored input space.                                     *)
(***************************************************************************)
\* largest number of transitions of a state graph
MaxEdges == 4
\* largest number of transitions of a state graph searched under fairness
MaxFairEdges == 3
\* largest non-negative max_depth argument passed to search
MaxDepth == 2
\* number of containers of a puzzle state
NumTubes == 3
\* largest max_tube_capacity of a puzzle state
MaxCap == 2
\* largest number of units in a puzzle state that is poured repeatedly,
\* compared or handed to the search engine
MaxUnits == 3

VARIABLES
    state_class,    \* the concrete State class in use: "MockState" or "WSPState"
    initial_state,  \* DFSSearcher.initial_state
    wsp,            \* the WSPState the puzzle's methods are called on
    call,           \* the last call of a WSPState method: receiver, argument, outcome
    transitions,    \* MockState.transitions: state value -> list of next state values
    goals,          \* the state values whose MockState._is_goal_state is set
    visited_states, \* DFSSearcher.visited_states
    path_to_goal,   \* DFSSearcher.path_to_goal: list of <<state, action>>
    max_depth,      \* the max_depth argument of the search call in progress
    stack,          \* the activation records of _dfs, outermost first
    ret,            \* the value the innermost finished _dfs call returned to its caller
    result,         \* the value the last finished search call returned
    marked,         \* the states line 57 added to visited_states, in order
    expanded,       \* the states whose get_possible_actions line 72 called, in order
    applied,        \* the successor states line 73 computed
    popped,         \* the states lines 68 and 80 popped from path_to_goal
    refused,        \* the states line 53 found in visited_states
    prev            \* what the preceding search call returned and left behind,
                    \* kept when the call in progress has the same max_depth

vars == <<state_class, initial_state, wsp, call, transitions, goals,
          visited_states, path_to_goal, max_depth, stack, ret, result,
          marked, expanded, applied, popped, refused, prev>>

graph == <<state_class, initial_state, transitions, goals>>
puzzle == <<wsp, call>>
engine == <<visited_states, path_to_goal, max_depth, stack, ret, result>>
history == <<marked, expanded, applied, popped, refused, prev>>

(***************************************************************************)
(* The state graph: the State contract as MockState implements it.  A      *)
(* state is its value; an action is named by its position in the state's   *)
(* transition list.                                                        *)
(***************************************************************************)
\* the absent incoming action of the initial state (None)
NoAction == 0

RECURSIVE MaxTarget(_)
MaxTarget(es) ==
    IF es = <<>> THEN 0
    ELSE LET m == MaxTarget(SubSeq(es, 1, Len(es) - 1))
             t == es[Len(es)][2]
         IN  IF t > m THEN t ELSE m

\* The transition lists with at most n transitions, as lists of <<from, to>>
\* grouped by source state.  States are numbered in breadth-first order of
\* discovery from the initial state, so every source is a state already
\* reached and a new state takes the next free number: every state graph
\* whose states are all reachable is, up to the naming of its states, one
\* of these.
RECURSIVE EdgeLists(_)
EdgeLists(n) ==
    IF n = 0 THEN {<<>>}
    ELSE LET shorter == EdgeLists(n - 1)
             longest == {es \in shorter : Len(es) = n - 1}
         IN  shorter \cup
             UNION {
               LET mx == MaxTarget(es)
                   lo == IF es = <<>> THEN 0 ELSE es[Len(es)][1]
               IN  {Append(es, <<a, b>>) : a \in lo..mx, b \in 0..(mx + 1)}
               : es \in longest }

Targets(es, s) ==
    LET mine == SelectSeq(es, LAMBDA e : e[1] = s)
    IN  [i \in 1..Len(mine) |-> mine[i][2]]

\* MockState.__eq__: equality by value
Mock_eq(s, t) == s = t

\* MockState.is_goal
Mock_is_goal(s) == s \in goals

\* MockState.get_possible_actions: one action per transition, in list order
Mock_get_possible_actions(s) == [i \in 1..Len(transitions[s]) |-> i]

\* MockState.is_valid_action
Mock_is_valid_action(s, a) == a \in 1..Len(transitions[s])

\* MockState.apply_action: the next state of the transition the action names
Mock_apply_action(s, a) == transitions[s][a]

(***************************************************************************)
(* The puzzle: WSPState and WSPAction.  A container is the sequence of its *)
(* colours from bottom to top; container indices are Python's, from 0.     *)
(***************************************************************************)
Colors == {"R", "G"}

\* WSPAction(from_tube, to_tube)
WSPAction(f, t) == [from_tube |-> f, to_tube |-> t]

\* WSPState(tubes, max_tube_capacity)
WSPState(tubes, cap) == [tubes |-> tubes, max_tube_capacity |-> cap]

\* self.tubes[i]
TubeAt(tubes, i) == tubes[i + 1]

\* tube[-1]
TopOf(tube) == tube[Len(tube)]

\* a fullness test that lets a full container take one more pour
TubeFullLate(to_tube, cap) == Len(to_tube) > cap

\* line 192: len(to_tube) >= self.max_tube_capacity
TubeFull(to_tube, cap) == Len(to_tube) >= cap

\* WSPState.is_valid_action
WSP_is_valid_action(S, a) ==
    LET from_idx == a.from_tube
        to_idx == a.to_tube
        n == Len(S.tubes)
    IN  IF from_idx < 0 \/ from_idx >= n \/ to_idx < 0 \/ to_idx >= n
        THEN FALSE
        ELSE LET from_tube == TubeAt(S.tubes, from_idx)
                 to_tube == TubeAt(S.tubes, to_idx)
             IN  IF from_tube = <<>> THEN FALSE
                 ELSE IF TubeFull(to_tube, S.max_tube_capacity) THEN FALSE
                 ELSE IF to_tube # <<>> /\ TopOf(to_tube) # TopOf(from_tube)
                 THEN FALSE
                 ELSE TRUE

\* an enumeration that takes every pair of different containers
OfferedAlways(S, action) == TRUE

\* lines 93-94: if self.is_valid_action(action): actions.append(action)
Offered(S, action) == WSP_is_valid_action(S, action)

\* WSPState.get_possible_actions: the pairs k = from_idx * n + to_idx from k on
RECURSIVE PossibleFrom(_, _)
PossibleFrom(S, k) ==
    LET n == Len(S.tubes)
        from_idx == k \div n
        to_idx == k % n
        action == WSPAction(from_idx, to_idx)
    IN  IF k >= n * n THEN <<>>
        ELSE IF from_idx = to_idx THEN PossibleFrom(S, k + 1)
        ELSE IF Offered(S, action)
        THEN <<action>> \o PossibleFrom(S, k + 1)
        ELSE PossibleFrom(S, k + 1)

WSP_get_possible_actions(S) == PossibleFrom(S, 0)

\* len(set(tube))
NumColorsIn(tube) == Cardinality({tube[i] : i \in 1..Len(tube)})

\* a pass that takes any container of one colour as done
TubeDoneAnyFill(tube, cap) ==
    IF tube = <<>> THEN TRUE
    ELSE IF NumColorsIn(tube) > 1 THEN FALSE
    ELSE TRUE

\* WSPState.is_goal, one pass of its loop: FALSE where the loop returns False
TubeDone(tube, cap) ==
    IF tube = <<>> THEN TRUE
    ELSE IF NumColorsIn(tube) > 1 THEN FALSE
    ELSE IF Len(tube) < cap /\ Len(tube) > 0 THEN FALSE
    ELSE TRUE

\* WSPState.is_goal
WSP_is_goal(S) ==
    \A i \in 1..Len(S.tubes) : TubeDone(S.tubes[i], S.max_tube_capacity)

\* lines 147-153: the number of units of top_color on top of from_tube,
\* counted downwards from position i
RECURSIVE CountTop(_, _, _)
CountTop(from_tube, top_color, i) ==
    IF i < 1 THEN 0
    ELSE IF from_tube[i] = top_color
    THEN 1 + CountTop(from_tube, top_color, i - 1)
    ELSE 0

\* a headroom that leaves one unit of the destination unused
AvailableSpaceLess(cap, to_tube) == cap - Len(to_tube) - 1

\* line 156: self.max_tube_capacity - len(to_tube)
AvailableSpace(cap, to_tube) == cap - Len(to_tube)

\* an amount that ignores the room left in the destination
MoveAmountAll(count, available_space) == count

\* line 157: min(count, available_space)
MoveAmount(count, available_space) ==
    IF count <= available_space THEN count ELSE available_space

\* lines 160-161: n times to_tube.append(from_tube.pop())
RECURSIVE MoveUnits(_, _, _, _)
MoveUnits(tubes, from_idx, to_idx, n) ==
    IF n <= 0 THEN tubes
    ELSE LET from_tube == TubeAt(tubes, from_idx)
             unit == TopOf(from_tube)
             popped_tubes == [tubes EXCEPT ![from_idx + 1] =
                                 SubSeq(from_tube, 1, Len(from_tube) - 1)]
             pushed_tubes == [popped_tubes EXCEPT ![to_idx + 1] =
                                 Append(TubeAt(popped_tubes, to_idx), unit)]
         IN  MoveUnits(pushed_tubes, from_idx, to_idx, n - 1)

\* the error apply_action raises in place of returning a state
ValueError == [error |-> "ValueError"]

\* a check that turns down only what no pour can be computed for: an index
\* out of range or an empty source
RaisesIfNoUnit(S, a) ==
    LET n == Len(S.tubes)
    IN  \/ a.from_tube < 0 \/ a.from_tube >= n
        \/ a.to_tube < 0 \/ a.to_tube >= n
        \/ TubeAt(S.tubes, a.from_tube) = <<>>

\* lines 135-136: if not self.is_valid_action(action): raise ValueError
Raises(S, a) == ~WSP_is_valid_action(S, a)

\* a copy that is the receiver's own list of containers
DeepcopyAlias(tubes) == [tubes |-> tubes, fresh |-> FALSE]

\* line 139: deepcopy(self.tubes): containers of the same content, none of
\* them a container of the receiver
Deepcopy(tubes) == [tubes |-> tubes, fresh |-> TRUE]

\* WSPState.apply_action: the new state, or ValueError for an invalid action
WSP_apply_action(S, a) ==
    IF Raises(S, a) THEN ValueError
    ELSE LET new_tubes == Deepcopy(S.tubes).tubes
             from_tube == TubeAt(new_tubes, a.from_tube)
             to_tube == TubeAt(new_tubes, a.to_tube)
             count == CountTop(from_tube, TopOf(from_tube), Len(from_tube))
             available_space == AvailableSpace(S.max_tube_capacity, to_tube)
             move_amount == MoveAmount(count, available_space)
         IN  WSPState(MoveUnits(new_tubes, a.from_tube, a.to_tube, move_amount),
                      S.max_tube_capacity)

\* self.tubes once self.apply_action(a) is over: lines 146-161 work on the
\* containers of new_tubes
WSP_tubes_after_apply(S, a) ==
    IF Raises(S, a) THEN S.tubes
    ELSE IF Deepcopy(S.tubes).fresh THEN S.tubes
    ELSE WSP_apply_action(S, a).tubes

\* sorted([tuple(tube) for tube in self.tubes]): tuples compare element by
\* element, a proper prefix before its extensions; colours compare as strings
ColorCode(c) == CASE c = "G" -> 1 [] c = "R" -> 2 [] c = "Y" -> 3

ColorLess(c, d) == ColorCode(c) < ColorCode(d)

RECURSIVE TubeLess(_, _)
TubeLess(x, y) ==
    IF x = <<>> THEN y # <<>>
    ELSE IF y = <<>> THEN FALSE
    ELSE IF x[1] # y[1] THEN ColorLess(x[1], y[1])
    ELSE TubeLess(Tail(x), Tail(y))

RECURSIVE InsertSorted(_, _)
InsertSorted(sorted, x) ==
    IF sorted = <<>> THEN <<x>>
    ELSE IF TubeLess(x, Head(sorted)) THEN <<x>> \o sorted
    ELSE <<Head(sorted)>> \o InsertSorted(Tail(sorted), x)

RECURSIVE SortedTubes(_)
SortedTubes(tubes) ==
    IF tubes = <<>> THEN <<>>
    ELSE InsertSorted(SortedTubes(SubSeq(tubes, 1, Len(tubes) - 1)),
                      tubes[Len(tubes)])

\* sorted(set(...)): the contents in order, each of them once
RECURSIVE SortedTubesOnce(_)
SortedTubesOnce(tubes) ==
    IF tubes = <<>> THEN <<>>
    ELSE LET rest == SortedTubesOnce(SubSeq(tubes, 1, Len(tubes) - 1))
             x == tubes[Len(tubes)]
         IN  IF \E i \in 1..Len(rest) : rest[i] = x THEN rest
             ELSE InsertSorted(rest, x)

\* a canonical form that keeps the containers in index order
SortedTubesKeep(tubes) == tubes

\* lines 231, 244: the canonical form __eq__ and __hash__ compute
Canonical(tubes) == SortedTubes(tubes)

\* WSPState.__eq__
WSP_eq(S, T) ==
    IF Len(S.tubes) # Len(T.tubes) THEN FALSE
    ELSE Canonical(S.tubes) = Canonical(T.tubes)

\* hash of a tuple of colours and of a tuple of such tuples: a value that
\* depends on the elements and their order, and on nothing else
RECURSIVE HashColors(_)
HashColors(tube) ==
    IF tube = <<>> THEN 7
    ELSE (31 * HashColors(SubSeq(tube, 1, Len(tube) - 1))
            + ColorCode(tube[Len(tube)])) % 1009

RECURSIVE HashTuple(_)
HashTuple(tubes) ==
    IF tubes = <<>> THEN 11
    ELSE (37 * HashTuple(SubSeq(tubes, 1, Len(tubes) - 1))
            + HashColors(tubes[Len(tubes)])) % 1009

\* WSPState.__hash__
WSP_hash(S) == HashTuple(Canonical(S.tubes))

(***************************************************************************)
(* The State contract (graph_base.py), dispatched on the concrete class.   *)
(***************************************************************************)
StateEq(s, t) ==
    IF state_class = "MockState" THEN Mock_eq(s, t) ELSE WSP_eq(s, t)

is_goal(s) ==
    IF state_class = "MockState" THEN Mock_is_goal(s) ELSE WSP_is_goal(s)

get_possible_actions(s) ==
    IF state_class = "MockState" THEN Mock_get_possible_actions(s)
    ELSE WSP_get_possible_actions(s)

is_valid_action(s, a) ==
    IF state_class = "MockState" THEN Mock_is_valid_action(s, a)
    ELSE WSP_is_valid_action(s, a)

apply_action(s, a) ==
    IF state_class = "MockState" THEN Mock_apply_action(s, a)
    ELSE WSP_apply_action(s, a)

\* apply_action raises ValueError instead of returning a state
apply_raises(s, a) ==
    IF state_class = "MockState" THEN ~Mock_is_valid_action(s, a)
    ELSE Raises(s, a)

(***************************************************************************)
(* DFSSearcher                                                             *)
(***************************************************************************)
\* search's max_depth arguments: negative ones, -1 the default, are unbounded
DepthArgs == (-2)..MaxDepth

\* a clear that leaves the visited-set as the last call left it
ClearVisitedKeep(v) == v

\* line 34: self.visited_states.clear()
ClearVisited(v) == {}

\* line 35: self.path_to_goal.clear()
ClearPath(p) == <<>>

\* a membership test that never finds the state
InVisitedNever(s, v) == FALSE

\* line 53: state in self.visited_states
InVisited(s, v) == \E x \in v : StateEq(x, s)

\* an add that leaves the state out
MarkVisitedSkip(v, s) == v

\* line 57: self.visited_states.add(state)
MarkVisited(v, s) == IF InVisited(s, v) THEN v ELSE v \cup {s}

\* an append that drops the incoming action
PushPathNoAction(p, s, a) == Append(p, <<s, NoAction>>)

\* line 60: self.path_to_goal.append((state, action))
PushPath(p, s, a) == Append(p, <<s, a>>)

\* a pop that leaves the entry on the path
PopPathKeep(p) == p

\* lines 68, 80: self.path_to_goal.pop()
PopPath(p) == SubSeq(p, 1, Len(p) - 1)

\* a depth test that takes the negative default for a bound
DepthReachedNoDefault(depth, md) == depth >= md

\* a depth test that stops one level short of the bound
DepthReachedEarly(depth, md) == md >= 0 /\ depth + 1 >= md

\* a depth test that lets one level too many through
DepthReachedLate(depth, md) == md >= 0 /\ depth > md

\* line 67: max_depth >= 0 and depth >= max_depth
DepthReached(depth, md) == md >= 0 /\ depth >= md

\* a loop step that passes over an action
NextIndexSkip(i) == i + 2

\* a loop step that stays on the same action
NextIndexStuck(i) == i

\* line 72: the for loop's step to the next action
NextIndex(i) == i + 1

\* an activation record of _dfs(state, action, depth, max_depth)
Frame(s, a, d) ==
    [state |-> s, action |-> a, depth |-> d, pc |-> "enter",
     actions |-> <<>>, idx |-> 1]

Top == stack[Len(stack)]
Caller == SubSeq(stack, 1, Len(stack) - 1)
ReplaceTop(f) == [stack EXCEPT ![Len(stack)] = f]

\* _dfs returns v: to its caller in _dfs, or - the outermost call - as the
\* value of search (line 37)
Return(v) ==
    /\ stack' = Caller
    /\ IF Len(stack) = 1
       THEN ret' = "none" /\ result' = v
       ELSE ret' = v /\ result' = result

NoPrev == [result |-> "none"]

\* what a caller holds of a finished search call: its value, and the content
\* of get_solution() and of visited_states at its return
Outcome == [result |-> result, max_depth |-> max_depth,
            path |-> path_to_goal, visited |-> visited_states]

\* search(max_depth), lines 34-37, up to the call of _dfs
Search(k) ==
    /\ stack = <<>>
    /\ visited_states' = ClearVisited(visited_states)
    /\ path_to_goal' = ClearPath(path_to_goal)
    /\ max_depth' = k
    /\ stack' = <<Frame(initial_state, NoAction, 0)>>
    /\ ret' = "none"
    /\ result' = "none"
    /\ marked' = <<>>
    /\ expanded' = <<>>
    /\ applied' = {}
    /\ popped' = {}
    /\ refused' = {}
    /\ prev' = IF result # "none" /\ max_depth = k THEN Outcome ELSE NoPrev
    /\ UNCHANGED <<graph, puzzle>>

\* _dfs, lines 53-72: from the entry to the start of the for loop
DfsEnter ==
    /\ stack # <<>>
    /\ Top.pc = "enter"
    /\ LET s == Top.state
           v == MarkVisited(visited_states, s)
           p == PushPath(path_to_goal, s, Top.action)
       IN  IF InVisited(s, visited_states)
           THEN /\ Return("False")
                /\ refused' = refused \cup {s}
                /\ UNCHANGED <<visited_states, path_to_goal, marked, expanded,
                               applied, popped, prev>>
           ELSE /\ visited_states' = v
                /\ UNCHANGED refused
                /\ marked' = Append(marked, s)
                /\ IF is_goal(s)
                   THEN /\ path_to_goal' = p
                        /\ Return("True")
                        /\ UNCHANGED <<expanded, popped>>
                   ELSE IF DepthReached(Top.depth, max_depth)
                   THEN /\ path_to_goal' = PopPath(p)
                        /\ popped' = popped \cup {p[Len(p)][1]}
                        /\ Return("False")
                        /\ UNCHANGED expanded
                   ELSE /\ path_to_goal' = p
                        /\ expanded' = Append(expanded, s)
                        /\ stack' = ReplaceTop([Top EXCEPT
                                        !.pc = "loop",
                                        !.actions = get_possible_actions(s),
                                        !.idx = 1])
                        /\ UNCHANGED <<ret, result, popped>>
                /\ UNCHANGED <<applied, prev>>
    /\ UNCHANGED <<graph, puzzle, max_depth>>

\* _dfs, lines 72-76 and 80-81: the next action of the for loop is applied
\* and _dfs called on the successor, or the loop is over; an error raised
\* by apply_action is not caught and ends the call of search
DfsLoop ==
    /\ stack # <<>>
    /\ Top.pc = "loop"
    /\ IF Top.idx <= Len(Top.actions) /\ apply_raises(Top.state, Top.actions[Top.idx])
       THEN /\ stack' = <<>>
            /\ ret' = "none"
            /\ result' = "ValueError"
            /\ UNCHANGED <<path_to_goal, applied, popped>>
       ELSE IF Top.idx <= Len(Top.actions)
       THEN LET next_action == Top.actions[Top.idx]
                next_state == apply_action(Top.state, next_action)
            IN  /\ stack' = Append(ReplaceTop([Top EXCEPT !.pc = "call"]),
                                   Frame(next_state, next_action, Top.depth + 1))
                /\ applied' = applied \cup {next_state}
                /\ UNCHANGED <<path_to_goal, ret, result, popped>>
       ELSE /\ path_to_goal' = PopPath(path_to_goal)
            /\ popped' = popped \cup {path_to_goal[Len(path_to_goal)][1]}
            /\ Return("False")
            /\ UNCHANGED applied
    /\ UNCHANGED <<graph, puzzle, visited_states, max_depth, marked, expanded,
                   refused, prev>>

\* _dfs, lines 76-77: the recursive call has returned
DfsReturn ==
    /\ stack # <<>>
    /\ Top.pc = "call"
    /\ ret # "none"
    /\ IF ret = "True"
       THEN Return("True")
       ELSE /\ stack' = ReplaceTop([Top EXCEPT !.pc = "loop",
                                               !.idx = NextIndex(Top.idx)])
            /\ ret' = "none"
            /\ UNCHANGED result
    /\ UNCHANGED <<graph, puzzle, visited_states, path_to_goal, max_depth, history>>

\* _dfs and its for loop as functions of the state graph (transition lists
\* tr, goal states gs): what a call returns and the visited-set it leaves
RECURSIVE DfsRun(_, _, _, _, _, _)
RECURSIVE DfsFor(_, _, _, _, _, _, _)
DfsRun(tr, gs, s, depth, md, v) ==
    IF InVisited(s, v) THEN [found |-> FALSE, visited |-> v]
    ELSE LET w == MarkVisited(v, s)
         IN  IF s \in gs THEN [found |-> TRUE, visited |-> w]
             ELSE IF DepthReached(depth, md)
             THEN [found |-> FALSE, visited |-> w]
             ELSE DfsFor(tr, gs, s, 1, depth, md, w)

DfsFor(tr, gs, s, i, depth, md, v) ==
    IF i > Len(tr[s]) THEN [found |-> FALSE, visited |-> v]
    ELSE LET r == DfsRun(tr, gs, tr[s][i], depth + 1, md, v)
         IN  IF r.found THEN r
             ELSE DfsFor(tr, gs, s, NextIndex(i), depth, md, r.visited)

\* search(md) on the state graph whose initial state is 0
SearchRun(tr, gs, md) == DfsRun(tr, gs, 0, 0, md, ClearVisited({}))

\* the state graphs of at most n transitions, with their goal states
Graphs(n) ==
    UNION {{[tr |-> [s \in 0..MaxTarget(es) |-> Targets(es, s)], gs |-> g] :
               g \in SUBSET (0..MaxTarget(es))} : es \in EdgeLists(n)}

(***************************************************************************)
(* Calls of the puzzle state's methods on the state in hand, one at a     *)
(* time: a call's outcome is recorded until the caller drops it.           *)
(***************************************************************************)
\* action arguments: container indices in and out of range
ActionArgs == {WSPAction(f, t) : f \in (-1)..NumTubes, t \in (-1)..NumTubes}

NoCall == [op |-> "none"]

\* wsp.is_valid_action(a)
CallIsValidAction(a) ==
    /\ call = NoCall
    /\ call' = [op |-> "is_valid_action", receiver |-> wsp, action |-> a,
                ret |-> WSP_is_valid_action(wsp, a)]
    /\ UNCHANGED <<wsp, graph, engine, history>>

\* wsp.apply_action(a): the caller goes on with the state returned
CallApplyAction(a) ==
    LET r == WSP_apply_action(wsp, a)
    IN  /\ call = NoCall
        /\ call' = [op |-> "apply_action", receiver |-> wsp, action |-> a,
                    raised |-> r = ValueError, ret |-> r,
                    receiver_after |-> WSP_tubes_after_apply(wsp, a),
                    chained |-> FALSE]
        /\ wsp' = IF r = ValueError THEN wsp ELSE r
        /\ UNCHANGED <<graph, engine, history>>

\* wsp.apply_action(b) by a caller that still holds the receiver of the pour
\* that returned wsp
CallApplyNext(b) ==
    LET r == WSP_apply_action(wsp, b)
    IN  /\ call.op = "apply_action"
        /\ ~call.raised
        /\ ~call.chained
        /\ call' = [op |-> "apply_action", receiver |-> wsp, action |-> b,
                    raised |-> r = ValueError, ret |-> r,
                    receiver_after |-> WSP_tubes_after_apply(wsp, b),
                    chained |-> TRUE,
                    earlier |-> call.receiver,
                    earlier_action |-> call.action,
                    earlier_after |->
                        IF Deepcopy(call.receiver.tubes).fresh
                        THEN call.receiver_after
                        ELSE WSP_tubes_after_apply(wsp, b)]
        /\ wsp' = IF r = ValueError THEN wsp ELSE r
        /\ UNCHANGED <<graph, engine, history>>

\* wsp.is_goal()
CallIsGoal ==
    /\ call = NoCall
    /\ call' = [op |-> "is_goal", receiver |-> wsp, ret |-> WSP_is_goal(wsp)]
    /\ UNCHANGED <<wsp, graph, engine, history>>

\* wsp.get_possible_actions()
CallGetPossibleActions ==
    /\ call = NoCall
    /\ stack = <<>>
    /\ call' = [op |-> "get_possible_actions", receiver |-> wsp,
                ret |-> WSP_get_possible_actions(wsp)]
    /\ UNCHANGED <<wsp, graph, engine, history>>

\* the states wsp is compared with: its containers in another index order,
\* with one container of other content, with one container less, or under
\* a larger capacity
Others(S) ==
    LET n == Len(S.tubes)
        cap == S.max_tube_capacity
    IN  {WSPState([i \in 1..n |-> S.tubes[p[i]]], cap) :
            p \in Permutations(1..n)}
        \cup {WSPState([S.tubes EXCEPT ![i] = c], cap) :
                 i \in 1..n, c \in UNION {[1..k -> Colors] : k \in 0..cap}}
        \cup {WSPState(SubSeq(S.tubes, 1, i - 1) \o SubSeq(S.tubes, i + 1, n),
                       cap) : i \in 1..n}
        \cup {WSPState(S.tubes, cap + 1)}

\* wsp == other
CallEq(other) ==
    /\ call = NoCall
    /\ call' = [op |-> "eq", receiver |-> wsp, other |-> other,
                ret |-> WSP_eq(wsp, other)]
    /\ UNCHANGED <<wsp, graph, engine, history>>

\* hash(wsp)
CallHash ==
    /\ call = NoCall
    /\ call' = [op |-> "hash", receiver |-> wsp, ret |-> WSP_hash(wsp)]
    /\ UNCHANGED <<wsp, graph, engine, history>>

\* the caller is done with the outcome of the last call
Forget ==
    /\ call # NoCall
    /\ call' = NoCall
    /\ UNCHANGED <<wsp, graph, engine, history>>

(***************************************************************************)
(* Specifications                                                          *)
(***************************************************************************)
\* DFSSearcher(initial_state): nothing visited, no path, no call in progress
InitEngine ==
    /\ visited_states = {}
    /\ path_to_goal = <<>>
    /\ max_depth = -1
    /\ stack = <<>>
    /\ ret = "none"
    /\ result = "none"
    /\ marked = <<>>
    /\ expanded = <<>>
    /\ applied = {}
    /\ popped = {}
    /\ refused = {}
    /\ prev = NoPrev

\* an engine constructed on the initial state, 0, of a state graph of at
\* most n transitions
InitGraph(n) ==
    /\ state_class = "MockState"
    /\ initial_state = 0
    /\ \E es \in EdgeLists(n) :
         /\ transitions = [s \in 0..MaxTarget(es) |-> Targets(es, s)]
         /\ goals \in SUBSET (0..MaxTarget(es))
    /\ wsp = WSPState(<<>>, 0)
    /\ call = NoCall
    /\ InitEngine

Init == InitGraph(MaxEdges)

Next ==
    \/ \E k \in DepthArgs : Search(k)
    \/ DfsEnter
    \/ DfsLoop
    \/ DfsReturn

Spec == Init /\ [][Next]_vars

InitFair == InitGraph(MaxFairEdges)

\* the engine runs on: a call of search, once made, is executed to its end
SpecFair ==
    InitFair /\ [][Next]_vars /\ WF_vars(DfsEnter \/ DfsLoop \/ DfsReturn)

\* the containers of at most cap units
TubeContents(cap) == UNION {[1..n -> Colors] : n \in 0..cap}

\* a puzzle state of NumTubes containers, none above its capacity
InitWSP ==
    /\ state_class = "WSPState"
    /\ \E cap \in 1..MaxCap :
         \E tubes \in [1..NumTubes -> TubeContents(cap)] :
            wsp = WSPState(tubes, cap)
    /\ initial_state = 0
    /\ call = NoCall
    /\ transitions = <<>>
    /\ goals = {}
    /\ InitEngine

NextWSP ==
    \/ \E a \in ActionArgs : CallIsValidAction(a)
    \/ \E a \in ActionArgs : CallApplyAction(a)
    \/ CallIsGoal
    \/ CallGetPossibleActions
    \/ Forget

SpecWSP == InitWSP /\ [][NextWSP]_vars

\* the puzzle of main: three colours, four units of each, two empty
\* containers, under the default max_tube_capacity
Demo ==
    WSPState(<< <<"R", "R", "G", "Y">>, <<"Y", "G", "Y", "G">>,
                <<"R", "R", "Y", "G">>, <<>>, <<>> >>, 4)

RECURSIVE Units(_)
Units(tubes) ==
    IF tubes = <<>> THEN 0
    ELSE Len(Head(tubes)) + Units(Tail(tubes))

\* the puzzle states of NumTubes containers, none above its capacity,
\* holding at most MaxUnits units
SmallPuzzles ==
    UNION {{WSPState(tubes, cap) :
               tubes \in {t \in [1..NumTubes -> TubeContents(cap)] :
                             Units(t) <= MaxUnits}} : cap \in 1..MaxCap}

\* the puzzles handed to the search engine
SolvePuzzles == {Demo} \cup SmallPuzzles

\* one of the small puzzle states, its methods yet to be called
InitSmall ==
    /\ state_class = "WSPState"
    /\ wsp \in SmallPuzzles
    /\ initial_state = 0
    /\ call = NoCall
    /\ transitions = <<>>
    /\ goals = {}
    /\ InitEngine

\* main: a puzzle state is built and a DFSSearcher constructed on it
InitSolve ==
    /\ state_class = "WSPState"
    /\ initial_state \in SolvePuzzles
    /\ wsp = initial_state
    /\ call = NoCall
    /\ transitions = <<>>
    /\ goals = {}
    /\ InitEngine

NextSolve ==
    \/ \E k \in DepthArgs : Search(k)
    \/ DfsEnter
    \/ DfsLoop
    \/ DfsReturn
    \/ CallGetPossibleActions
    \/ Forget

SpecSolve == InitSolve /\ [][NextSolve]_vars

\* simple_state of test_get_possible_actions: one unit and an empty
\* container, under the default max_tube_capacity
SimpleState == WSPState(<< <<"R">>, <<>> >>, 4)

\* the methods of the puzzle state called on simple_state and on the states
\* its pours return
InitSimple ==
    /\ state_class = "WSPState"
    /\ wsp = SimpleState
    /\ initial_state = 0
    /\ call = NoCall
    /\ transitions = <<>>
    /\ goals = {}
    /\ InitEngine

SpecSimple == InitSimple /\ [][NextWSP]_vars

\* pours applied one after the other, each to the state the last returned
NextPour ==
    \/ \E a \in ActionArgs : CallApplyAction(a)
    \/ \E b \in ActionArgs : CallApplyNext(b)
    \/ Forget

SpecPour == InitSmall /\ [][NextPour]_vars

\* main, lines 14-23: initial_state is built, within capacity; the caller
\* pours from it, keeping it to compare with
InitPlay ==
    /\ state_class = "WSPState"
    /\ initial_state \in SmallPuzzles
    /\ wsp = initial_state
    /\ call = NoCall
    /\ transitions = <<>>
    /\ goals = {}
    /\ InitEngine

\* pours applied one after the other from the initial state on
NextPlay ==
    \/ \E a \in ActionArgs : CallApplyAction(a)
    \/ Forget

SpecPlay == InitPlay /\ [][NextPlay]_vars

\* comparisons and hashes of puzzle states
NextEq ==
    \/ \E other \in Others(wsp) : CallEq(other)
    \/ CallHash
    \/ Forget

SpecEq == InitSmall /\ [][NextEq]_vars

(***************************************************************************)
(* Properties of the search engine                                         *)
(***************************************************************************)
\* no call of search is in progress and the last one returned v
Returned(v) == stack = <<>> /\ result = v

PathState(i) == path_to_goal[i][1]
PathAction(i) == path_to_goal[i][2]

\* the states reachable from the initial state by at most k actions
RECURSIVE ReachWithin(_)
ReachWithin(k) ==
    IF k <= 0 THEN {initial_state}
    ELSE LET near == ReachWithin(k - 1)
         IN  near \cup
             UNION {{apply_action(s, get_possible_actions(s)[i]) :
                        i \in 1..Len(get_possible_actions(s))} : s \in near}

\* the visited-set holds a state equal to s
Visited(s) == \E x \in visited_states : StateEq(x, s)

NoRepeat(seq) ==
    \A i, j \in 1..Len(seq) : i # j => ~StateEq(seq[i], seq[j])

\* C1: whenever search has returned true, the path is non-empty, starts
\* with (initial state, no action), ends in a goal state, and each entry's
\* action is legal in the state of the entry before it and leads from that
\* state to the entry's own state.
C1_SolutionIsPath ==
    Returned("True") =>
        /\ path_to_goal # <<>>
        /\ path_to_goal[1] = <<initial_state, NoAction>>
        /\ is_goal(PathState(Len(path_to_goal)))
        /\ \A i \in 1..(Len(path_to_goal) - 1) :
              /\ is_valid_action(PathState(i), PathAction(i + 1))
              /\ StateEq(apply_action(PathState(i), PathAction(i + 1)),
                         PathState(i + 1))

\* a goal found two actions away after a dead end was given up
C1_Witness ==
    /\ Returned("True")
    /\ Len(path_to_goal) >= 3
    /\ popped # {}

\* C2: whenever search has returned false, the path buffer is empty.
C2_FailureLeavesNoPath ==
    Returned("False") => path_to_goal = <<>>

\* the two-state cycle without a goal, searched without a depth bound
C2_Witness ==
    /\ Returned("False")
    /\ max_depth = -1
    /\ DOMAIN transitions = {0, 1}
    /\ transitions[0] = <<1>>
    /\ transitions[1] = <<0>>
    /\ goals = {}
    /\ visited_states = {0, 1}
    /\ path_to_goal = <<>>

\* C3: under a depth bound k >= 0 the path buffer never holds more than
\* k + 1 entries, and a search whose goals all lie more than k actions from
\* the initial state returns false.
C3_DepthBound ==
    max_depth >= 0 =>
        /\ Len(path_to_goal) <= max_depth + 1
        /\ (stack = <<>> /\ result # "none"
              /\ \A s \in ReachWithin(max_depth) : ~is_goal(s))
           => result = "False"

\* a bounded search that failed although a goal lies beyond the bound
C3_Witness ==
    /\ Returned("False")
    /\ max_depth = 1
    /\ \E s \in ReachWithin(2) : is_goal(s)
    /\ popped # {}

\* C4: the states on the path are pairwise different, no state is marked
\* visited twice or expanded twice, and every state on the path is marked.
C4_NoStateTwice ==
    /\ NoRepeat([i \in 1..Len(path_to_goal) |-> PathState(i)])
    /\ NoRepeat(marked)
    /\ NoRepeat(expanded)
    /\ \A i \in 1..Len(path_to_goal) : Visited(PathState(i))
    /\ \A i \in 1..Len(marked) : Visited(marked[i])
    /\ Cardinality(visited_states) = Len(marked)

\* a call on a state that is on the path (a cycle) has just been turned down
C4_Witness ==
    /\ stack # <<>>
    /\ Top.pc = "call"
    /\ ret = "False"
    /\ \E i \in 1..Len(path_to_goal) :
          StateEq(PathState(i), apply_action(Top.state, Top.actions[Top.idx]))

\* C5: a call of search on a finite state graph, cyclic or not and with
\* or without a depth bound, returns.
C5_SearchTerminates ==
    (stack # <<>>) ~> (stack = <<>> /\ result \in {"True", "False"})

\* an unbounded search of a graph with a cycle through the initial state
\* has returned
C5_Witness ==
    /\ stack = <<>>
    /\ result \in {"True", "False"}
    /\ max_depth = -1
    /\ initial_state \in applied
    /\ Len(expanded) >= 2

\* C6: a call of search starts from an empty visited-set and an empty path
\* buffer, and returns the same value, path content and visited-set as the
\* call before it when that call had the same max_depth.
C6_CallsIndependent ==
    /\ (Len(stack) = 1 /\ Top.pc = "enter") =>
          /\ visited_states = {}
          /\ path_to_goal = <<>>
          /\ Top = Frame(initial_state, NoAction, 0)
    /\ (stack = <<>> /\ result # "none" /\ prev # NoPrev) =>
          /\ prev.max_depth = max_depth
          /\ prev.result = result
          /\ prev.path = path_to_goal
          /\ prev.visited = visited_states

\* a second call with the same max_depth has again found the goal, behind
\* states the call before it had visited too
C6_Witness ==
    /\ Returned("True")
    /\ prev # NoPrev
    /\ Len(path_to_goal) >= 2
    /\ Cardinality(visited_states) >= 3

\* C7: during a call of search the visited-set only grows; a state popped
\* from the path stays in it; and once the call has returned it holds the
\* initial state and every successor that apply_action computed.
C7_VisitedOnlyGrows ==
    /\ [](\A s \in popped : Visited(s))
    /\ [](stack = <<>> /\ result # "none" =>
             /\ Visited(initial_state)
             /\ \A s \in applied : Visited(s))
    /\ [][stack # <<>> => visited_states \subseteq visited_states']_vars

\* a search has returned true after giving up a dead end, which is still
\* in the visited-set and no longer on the path
C7_Witness ==
    /\ Returned("True")
    /\ \E s \in popped :
          /\ s \in visited_states
          /\ \A i \in 1..Len(path_to_goal) : PathState(i) # s

(***************************************************************************)
(* Properties of the puzzle state                                          *)
(***************************************************************************)
\* container i (Python index) of puzzle state S
Container(S, i) == S.tubes[i + 1]

AllOneColor(tube) == \A p, q \in 1..Len(tube) : tube[p] = tube[q]

\* the length of the maximal run of the top colour on top of a container
TopRun(tube) ==
    CHOOSE n \in 1..Len(tube) :
        /\ \A q \in (Len(tube) - n + 1)..Len(tube) : tube[q] = tube[Len(tube)]
        /\ n = Len(tube) \/ tube[Len(tube) - n] # tube[Len(tube)]

\* T is S after m = min(run, headroom) units went from the top of container
\* i to the top of container j
Poured(S, i, j, T) ==
    LET src == Container(S, i)
        dst == Container(S, j)
        r == TopRun(src)
        h == S.max_tube_capacity - Len(dst)
        m == IF r <= h THEN r ELSE h
    IN  /\ Container(T, i) = SubSeq(src, 1, Len(src) - m)
        /\ Container(T, j) = dst \o [q \in 1..m |-> src[Len(src)]]

C9_PourAnyLegal ==
    (call.op = "apply_action" /\ ~call.raised) =>
        Poured(call.receiver, call.action.from_tube, call.action.to_tube,
               call.ret)

\* the same of the legal actions (i, j) between two different containers,
\* the ones get_possible_actions enumerates
C9_PourDistinct ==
    (call.op = "apply_action" /\ ~call.raised
        /\ call.action.from_tube # call.action.to_tube) =>
        Poured(call.receiver, call.action.from_tube, call.action.to_tube,
               call.ret)

\* a pour between two containers that the destination's headroom cut short
C9_Witness ==
    /\ call.op = "apply_action"
    /\ ~call.raised
    /\ call.action.from_tube # call.action.to_tube
    /\ LET src == Container(call.receiver, call.action.from_tube)
           dst == Container(call.receiver, call.action.to_tube)
       IN  /\ TopRun(src) > call.receiver.max_tube_capacity - Len(dst)
           /\ Len(Container(call.ret, call.action.to_tube)) = Len(dst) + 1

C11_InvalidActionRaises ==
    (call.op = "apply_action"
        /\ ~WSP_is_valid_action(call.receiver, call.action)) =>
        /\ call.raised
        /\ call.ret = ValueError
        /\ call.receiver_after = call.receiver.tubes
        /\ wsp = call.receiver

\* a pour onto a container with room whose top colour differs from the
\* source's was turned down
C11_Witness ==
    /\ call.op = "apply_action"
    /\ call.raised
    /\ call.action.from_tube \in 0..(NumTubes - 1)
    /\ call.action.to_tube \in 0..(NumTubes - 1)
    /\ LET src == Container(call.receiver, call.action.from_tube)
           dst == Container(call.receiver, call.action.to_tube)
       IN  /\ src # <<>>
           /\ dst # <<>>
           /\ Len(dst) < call.receiver.max_tube_capacity
           /\ src[Len(src)] # dst[Len(dst)]

\* C12: apply_action leaves the receiver's containers as they were; the
\* state it returns has as many containers as the receiver, the receiver's
\* content at every index other than the action's source and destination,
\* and the receiver's max_tube_capacity; and a pour applied to the returned
\* state leaves the earlier receiver's containers as they were.
C12_ReceiverUntouched ==
    (call.op = "apply_action" /\ ~call.raised) =>
        /\ call.receiver_after = call.receiver.tubes
        /\ Len(call.ret.tubes) = Len(call.receiver.tubes)
        /\ \A i \in 0..(Len(call.receiver.tubes) - 1) :
              (i # call.action.from_tube /\ i # call.action.to_tube) =>
                  Container(call.ret, i) = Container(call.receiver, i)
        /\ call.ret.max_tube_capacity = call.receiver.max_tube_capacity
        /\ call.chained => call.earlier_after = call.earlier.tubes

\* a second pour carried units on from the container the first pour had
\* poured into, to a container other than the first pour's source
C12_Witness ==
    /\ call.op = "apply_action"
    /\ ~call.raised
    /\ call.chained
    /\ call.action.from_tube = call.earlier_action.to_tube
    /\ call.action.to_tube # call.earlier_action.from_tube
    /\ call.ret.tubes # call.receiver.tubes
    /\ call.receiver.tubes # call.earlier.tubes
    /\ call.ret.tubes # call.earlier.tubes

\* the number of containers of tubes whose content is c
Copies(tubes, c) == Cardinality({i \in 1..Len(tubes) : tubes[i] = c})

\* the two lists hold the same contents, each as often in one as in the other
SameMultiset(xs, ys) ==
    \A c \in {xs[i] : i \in 1..Len(xs)} \cup {ys[i] : i \in 1..Len(ys)} :
        Copies(xs, c) = Copies(ys, c)

\* C13: two puzzle states are equal iff they have the same number of
\* containers and the same multiset of container contents, whatever the
\* index order; and states that are equal have the same hash.
C13_EqualityIsMultiset ==
    /\ call.op = "eq" =>
          call.ret = (/\ Len(call.receiver.tubes) = Len(call.other.tubes)
                      /\ SameMultiset(call.receiver.tubes, call.other.tubes))
    /\ call.op = "hash" =>
          \A T \in Others(call.receiver) :
              WSP_eq(call.receiver, T) => WSP_hash(T) = call.ret

\* a state was found equal to one that holds its containers, all three of
\* different content, in another index order
C13_Witness ==
    /\ call.op = "eq"
    /\ call.ret = TRUE
    /\ call.other.tubes # call.receiver.tubes
    /\ Cardinality({call.receiver.tubes[i] : i \in 1..NumTubes}) = NumTubes

\* acts lists exactly the actions (i, j), i # j, both in range, that
\* is_valid_action accepts in S, each once, by ascending source index and
\* then ascending destination index
LegalPairsInOrder(S, acts) ==
    LET n == Len(S.tubes)
    IN  /\ \A p \in 1..Len(acts) :
              /\ acts[p].from_tube \in 0..(n - 1)
              /\ acts[p].to_tube \in 0..(n - 1)
              /\ acts[p].from_tube # acts[p].to_tube
              /\ WSP_is_valid_action(S, acts[p])
        /\ \A i, j \in 0..(n - 1) :
              (i # j /\ WSP_is_valid_action(S, WSPAction(i, j))) =>
                  \E p \in 1..Len(acts) : acts[p] = WSPAction(i, j)
        /\ \A p, q \in 1..Len(acts) :
              p < q =>
                  \/ acts[p].from_tube < acts[q].from_tube
                  \/ /\ acts[p].from_tube = acts[q].from_tube
                     /\ acts[p].to_tube < acts[q].to_tube

\* C14: get_possible_actions returns exactly the legal actions between two
\* different containers, each once and in ascending order of source and
\* then destination; the search engine therefore applies legal actions
\* only, and no call of search ends in the error of apply_action.
C14_EnumeratesLegalPairs ==
    /\ call.op = "get_possible_actions" =>
          LegalPairsInOrder(call.receiver, call.ret)
    /\ \A d \in 1..Len(stack) :
          stack[d].pc \in {"loop", "call"} =>
              /\ LegalPairsInOrder(stack[d].state, stack[d].actions)
              /\ stack[d].pc = "call" =>
                    WSP_is_valid_action(stack[d].state,
                                        stack[d].actions[stack[d].idx])
    /\ result # "ValueError"
    /\ ValueError \notin applied

\* the search of main's puzzle has applied the second of several actions
\* enumerated for a state, after the first one led nowhere
C14_Witness ==
    /\ initial_state = Demo
    /\ stack # <<>>
    /\ \E d \in 1..Len(stack) :
          /\ stack[d].pc = "call"
          /\ stack[d].idx >= 2
          /\ Len(stack[d].actions) >= 3
    /\ Cardinality(applied) >= 3

\* the last pour was applied to the state an earlier legal pour returned,
\* and poured back from that pour's destination to its source
PouredBack ==
    /\ call.op = "apply_action"
    /\ call.chained
    /\ ~call.raised
    /\ call.action = WSPAction(call.earlier_action.to_tube,
                               call.earlier_action.from_tube)

\* C15 as stated: a legal pour followed by the reverse pour, when that is
\* legal, returns a state equal to the one the first pour was applied to.
C15_RoundTrip ==
    PouredBack => WSP_eq(call.ret, call.earlier)

\* C15, amended: a legal pour (i, j) followed by the reverse pour, when
\* that is legal, returns a state equal to the one the first pour was
\* applied to, provided that in that state container j was empty or
\* container i held max_tube_capacity units, or that i = j.
C15_RoundTripExact ==
    (PouredBack
        /\ \/ Container(call.earlier, call.earlier_action.to_tube) = <<>>
           \/ Len(Container(call.earlier, call.earlier_action.from_tube))
                 = call.earlier.max_tube_capacity
           \/ call.earlier_action.from_tube = call.earlier_action.to_tube)
    => WSP_eq(call.ret, call.earlier)

\* a unit was poured from a full container onto a non-empty one and then
\* poured back
C15_Witness ==
    /\ PouredBack
    /\ call.earlier_action.from_tube # call.earlier_action.to_tube
    /\ Container(call.earlier, call.earlier_action.to_tube) # <<>>
    /\ Len(Container(call.earlier, call.earlier_action.from_tube))
          = call.earlier.max_tube_capacity
    /\ call.receiver.tubes # call.earlier.tubes
    /\ call.ret.tubes = call.earlier.tubes

\* the states an action of s leads to
Successors(s) ==
    {apply_action(s, get_possible_actions(s)[i]) :
        i \in 1..Len(get_possible_actions(s))}

\* the paths of at most n actions from the initial state that pass through
\* no state twice, each as the sequence of its states
RECURSIVE SimplePaths(_)
SimplePaths(n) ==
    IF n = 0 THEN {<<initial_state>>}
    ELSE LET shorter == SimplePaths(n - 1)
         IN  shorter \cup
             UNION {{Append(q, t) :
                        t \in {u \in Successors(q[Len(q)]) :
                                  \A i \in 1..Len(q) : q[i] # u}} :
                    q \in shorter}

\* some state is reachable from the initial state by two different paths
TwoPaths ==
    \E q, r \in SimplePaths(Cardinality(DOMAIN transitions)) :
        q # r /\ q[Len(q)] = r[Len(r)]

\* a search under a depth bound has returned although a goal state lies
\* within the bound
BoundedGoalInReach ==
    /\ max_depth >= 0
    /\ stack = <<>>
    /\ result # "none"
    /\ \E s \in ReachWithin(max_depth) : is_goal(s)

\* C16 as stated: if a goal state is reachable from the initial state by at
\* most k actions, search(max_depth=k) returns true.
C16_BoundFindsGoal ==
    BoundedGoalInReach => result = "True"

\* C16, amended: in a state graph in which no state is reachable from the
\* initial state by two different paths, if a goal state is reachable from
\* the initial state by at most k actions, search(max_depth=k) returns true.
C16_BoundFindsGoalOnTree ==
    (BoundedGoalInReach /\ ~TwoPaths) => result = "True"

\* in a graph without a second path to any state, a search has given up a
\* branch and then found a goal state exactly max_depth = 2 actions away
C16_Witness ==
    /\ Returned("True")
    /\ max_depth = 2
    /\ Len(path_to_goal) = 3
    /\ popped # {}
    /\ ~TwoPaths

\* every container of S is empty or holds max_tube_capacity units of one
\* colour
Sorted(S) ==
    \A q \in 1..Len(S.tubes) :
        \/ S.tubes[q] = <<>>
        \/ /\ Len(S.tubes[q]) = S.max_tube_capacity
           /\ AllOneColor(S.tubes[q])

\* C17: the search of main's puzzle without a depth bound returns true,
\* and leaves a path of more than one entry whose last state is a goal.
C17_DemoSolved ==
    (initial_state = Demo /\ max_depth < 0 /\ stack = <<>>
        /\ result # "none") =>
        /\ result = "True"
        /\ Len(path_to_goal) > 1
        /\ is_goal(PathState(Len(path_to_goal)))
        /\ Sorted(PathState(Len(path_to_goal)))

\* the search of main's puzzle has returned a path of eleven pours
C17_Witness ==
    /\ initial_state = Demo
    /\ max_depth = -1
    /\ Returned("True")
    /\ Len(path_to_goal) = 12
    /\ Cardinality(visited_states) = 12

\* simple_state after its unit was poured into the other container
SimplePoured == WSPState(<< <<>>, <<"R">> >>, 4)

\* for containers [[R],[]] and capacity 4, exactly the action 0->1 is
\* enumerated, and applying it yields the containers [[],[R]]
SimpleStateMoves ==
    /\ (call.op = "get_possible_actions" /\ call.receiver = SimpleState) =>
          call.ret = <<WSPAction(0, 1)>>
    /\ (call.op = "apply_action" /\ call.receiver = SimpleState
           /\ call.action = WSPAction(0, 1)) =>
          call.ret = SimplePoured

\* C18 as stated: for containers [[R],[]] and capacity 4, exactly the
\* action 0->1 is enumerated, applying it yields [[],[R]], and that state
\* satisfies the goal test.
C18_SimpleIsSolved ==
    /\ SimpleStateMoves
    /\ (call.op = "is_goal" /\ call.receiver = SimplePoured) =>
          call.ret = TRUE

\* C18, amended: for containers [[R],[]] and capacity 4, exactly the action
\* 0->1 is enumerated, applying it yields [[],[R]], and that state does not
\* satisfy the goal test: its one unit does not fill a container of 4.
C18_SimpleIsNotSolved ==
    /\ SimpleStateMoves
    /\ (call.op = "is_goal" /\ call.receiver = SimplePoured) =>
          call.ret = FALSE

\* the goal test was called on the state that the pour 0->1 returned
C18_Witness ==
    /\ call.op = "is_goal"
    /\ call.receiver = SimplePoured
    /\ wsp = SimplePoured

\* the step-by-step run of search and its run as a function agree
RunAgrees ==
    (state_class = "MockState" /\ stack = <<>> /\ result # "none") =>
        LET r == SearchRun(transitions, goals, max_depth)
        IN  /\ r.found = (result = "True")
            /\ r.visited = visited_states

\* the states of the graph tr reachable from state 0 by at most n actions
RECURSIVE ReachIn(_, _)
ReachIn(tr, n) ==
    IF n = 0 THEN {0}
    ELSE LET near == ReachIn(tr, n - 1)
         IN  near \cup UNION {{tr[s][i] : i \in 1..Len(tr[s])} : s \in near}

\* the paths of at most n actions from state 0 in the graph tr that pass
\* through no state twice
RECURSIVE SimplePathsIn(_, _)
SimplePathsIn(tr, n) ==
    IF n = 0 THEN {<<0>>}
    ELSE LET shorter == SimplePathsIn(tr, n - 1)
         IN  shorter \cup
             UNION {{Append(q, tr[q[Len(q)]][i]) :
                        i \in {j \in 1..Len(tr[q[Len(q)]]) :
                                  \A m \in 1..Len(q) :
                                      q[m] # tr[q[Len(q)]][j]}} :
                    q \in shorter}

\* two different paths from the initial state end in s
TwoPathsTo(s) ==
    \E q, r \in SimplePaths(Cardinality(DOMAIN transitions)) :
        q # r /\ q[Len(q)] = s /\ r[Len(r)] = s

\* search has returned false although a goal state is reachable from the
\* initial state: by any number of actions if the call had no depth bound,
\* by at most max_depth actions if it had one
Missed ==
    /\ Returned("False")
    /\ \E s \in ReachWithin(IF max_depth < 0
                             THEN Cardinality(DOMAIN transitions)
                             ELSE max_depth) : is_goal(s)

Reachable == ReachWithin(Cardinality(DOMAIN transitions))

\* C20: a search without a depth bound returns true iff a goal state is
\* reachable from the initial state, and when it returns false the
\* visited-set is exactly the set of reachable states.
C20_UnboundedIsExhaustive ==
    (max_depth < 0 /\ stack = <<>> /\ result # "none") =>
        /\ result \in {"True", "False"}
        /\ (result = "True") = (\E s \in Reachable : is_goal(s))
        /\ result = "False" => visited_states = Reachable

\* a search without a depth bound has returned false after visiting four
\* states, one of which it reached a second time
C20_Witness ==
    /\ Returned("False")
    /\ max_depth = -1
    /\ Cardinality(visited_states) = 4
    /\ visited_states = Reachable
    /\ refused # {}

\* a goal state is on the path
GoalOnPath == \E i \in 1..Len(path_to_goal) : is_goal(PathState(i))

\* the position of s in the sequence seq, 0 if it is not in it
PosIn(seq, s) ==
    IF \E i \in 1..Len(seq) : seq[i] = s
    THEN CHOOSE i \in 1..Len(seq) : seq[i] = s
    ELSE 0

\* the activation of _dfs at stack position d has tried the actions that
\* get_possible_actions returned for its state from the first one on, none
\* left out, and the activation above it works on the action it is at
TriedInOrder(d) ==
    LET f == stack[d]
        acts == get_possible_actions(f.state)
    IN  f.pc \in {"loop", "call"} =>
            /\ f.actions = acts
            /\ f.idx \in 1..(Len(acts) + 1)
            /\ \A i \in 1..Len(acts) :
                  (i < f.idx \/ (i = f.idx /\ f.pc = "call")) =>
                      apply_action(f.state, acts[i]) \in applied
            /\ (f.pc = "call" /\ d < Len(stack)) =>
                  /\ stack[d + 1].state = apply_action(f.state, acts[f.idx])
                  /\ stack[d + 1].action = acts[f.idx]
                  /\ stack[d + 1].depth = f.depth + 1

\* C21: a state's actions are tried in the order get_possible_actions
\* returns them, one after the other; once a goal state has been pushed on
\* the path, the call applies no further action, adds no further state to
\* the visited-set and pops no path entry, and returns true; and the path
\* returned ends in the first goal state of the traversal's pre-order, its
\* states in the order the traversal came to them.
C21_FirstSuccessWins ==
    /\ [](\A d \in 1..Len(stack) : TriedInOrder(d))
    /\ [][\A d \in 1..Len(stack) :
             (d <= Len(stack') /\ stack[d].pc # "enter") =>
                 /\ stack'[d].actions = stack[d].actions
                 /\ stack'[d].idx = stack[d].idx
                       + (IF stack[d].pc = "call" /\ stack'[d].pc = "loop"
                          THEN 1 ELSE 0)]_vars
    /\ [][(GoalOnPath /\ stack # <<>>) =>
             /\ applied' = applied
             /\ visited_states' = visited_states
             /\ marked' = marked
             /\ popped' = popped
             /\ path_to_goal' = path_to_goal
             /\ Len(stack') = Len(stack) - 1
             /\ IF stack' = <<>> THEN result' = "True" ELSE ret' = "True"]_vars
    /\ [](Returned("True") =>
             /\ PathState(Len(path_to_goal)) = marked[Len(marked)]
             /\ \A i \in 1..(Len(marked) - 1) : ~is_goal(marked[i])
             /\ \A i \in 1..(Len(path_to_goal) - 1) :
                   /\ PosIn(marked, PathState(i)) > 0
                   /\ PosIn(marked, PathState(i))
                         < PosIn(marked, PathState(i + 1)))

\* a search has returned a path whose last action was the second one of
\* its state, tried after the first one had led to a dead end, and with a
\* third one left untried
C21_Witness ==
    /\ Returned("True")
    /\ Len(path_to_goal) >= 2
    /\ PathAction(Len(path_to_goal)) = 2
    /\ Len(transitions[PathState(Len(path_to_goal) - 1)]) = 3
    /\ popped # {}
    /\ transitions[PathState(Len(path_to_goal) - 1)][3] \notin visited_states

\* C22: a pour from a container into itself is not a legal move: no action
\* (i, i) is returned by get_possible_actions, is_valid_action is false of
\* every action (i, i), and apply_action raises ValueError for it.
C22_SelfPourIllegal ==
    /\ call.op = "get_possible_actions" =>
          \A p \in 1..Len(call.ret) :
              call.ret[p].from_tube # call.ret[p].to_tube
    /\ (call.op = "is_valid_action"
           /\ call.action.from_tube = call.action.to_tube) =>
          call.ret = FALSE
    /\ (call.op = "apply_action"
           /\ call.action.from_tube = call.action.to_tube) =>
          /\ call.raised
          /\ call.ret = ValueError

\* every container of S holds at most max_tube_capacity units
WithinCapacity(S) ==
    \A q \in 1..Len(S.tubes) : Len(S.tubes[q]) <= S.max_tube_capacity

\* S has the number of containers and the capacity of the initial state,
\* and no container above that capacity
ShapeKept(S) ==
    /\ Len(S.tubes) = Len(initial_state.tubes)
    /\ S.max_tube_capacity = initial_state.max_tube_capacity
    /\ WithinCapacity(S)

\* C23: from an initial state whose containers each hold at most
\* max_tube_capacity units, every state that a sequence of legal pours
\* leads to has as many containers as the initial state, each holding at
\* most max_tube_capacity units.
C23_CapacityKept ==
    WithinCapacity(initial_state) =>
        /\ ShapeKept(wsp)
        /\ (call.op = "apply_action" /\ ~call.raised) => ShapeKept(call.ret)

\* a later pour of a sequence filled its destination to the brim and left
\* part of the source's top run behind
C23_Witness ==
    /\ call.op = "apply_action"
    /\ ~call.raised
    /\ call.action.from_tube # call.action.to_tube
    /\ LET src == Container(call.receiver, call.action.from_tube)
           dst == Container(call.receiver, call.action.to_tube)
       IN  /\ TopRun(src) > call.receiver.max_tube_capacity - Len(dst)
           /\ Len(Container(call.ret, call.action.to_tube))
                 = initial_state.max_tube_capacity
    /\ call.receiver.tubes # initial_state.tubes
    /\ wsp = call.ret

\* the number of units of colour c in a container, and in all containers
RECURSIVE UnitsOfIn(_, _)
UnitsOfIn(c, tube) ==
    IF tube = <<>> THEN 0
    ELSE (IF Head(tube) = c THEN 1 ELSE 0) + UnitsOfIn(c, Tail(tube))

RECURSIVE UnitsOf(_, _)
UnitsOf(c, tubes) ==
    IF tubes = <<>> THEN 0
    ELSE UnitsOfIn(c, Head(tubes)) + UnitsOf(c, Tail(tubes))

\* C24: every state that a sequence of legal pours leads to holds as many
\* units of each colour as the initial state; and a legal pour between two
\* different containers moves at least one unit: the source loses as many
\* units as the destination gains, and that is one or more.
C24_LiquidConserved ==
    /\ \A c \in Colors :
          UnitsOf(c, wsp.tubes) = UnitsOf(c, initial_state.tubes)
    /\ (call.op = "apply_action" /\ ~call.raised) =>
          /\ \A c \in Colors :
                UnitsOf(c, call.ret.tubes) = UnitsOf(c, initial_state.tubes)
          /\ call.action.from_tube # call.action.to_tube =>
                LET lost == Len(Container(call.receiver, call.action.from_tube))
                              - Len(Container(call.ret, call.action.from_tube))
                    gained == Len(Container(call.ret, call.action.to_tube))
                                - Len(Container(call.receiver, call.action.to_tube))
                IN  lost = gained /\ lost >= 1

\* a later pour of a sequence moved two units at once, in a state that
\* holds both colours
C24_Witness ==
    /\ call.op = "apply_action"
    /\ ~call.raised
    /\ call.action.from_tube # call.action.to_tube
    /\ Len(Container(call.ret, call.action.to_tube))
          = Len(Container(call.receiver, call.action.to_tube)) + 2
    /\ \A c \in Colors : UnitsOf(c, initial_state.tubes) >= 1
    /\ call.receiver.tubes # initial_state.tubes

\* every action that is_valid_action accepts in S has a counterpart that
\* it accepts in T and that leads to an equal state, and so has every action
\* that get_possible_actions returns for S among those it returns for T
Simulates(S, T) ==
    /\ \A a \in ActionArgs :
          WSP_is_valid_action(S, a) =>
              \E b \in ActionArgs :
                  /\ WSP_is_valid_action(T, b)
                  /\ WSP_eq(WSP_apply_action(S, a), WSP_apply_action(T, b))
    /\ LET acts == WSP_get_possible_actions(S)
           bcts == WSP_get_possible_actions(T)
       IN  \A p \in 1..Len(acts) :
               \E q \in 1..Len(bcts) :
                   WSP_eq(WSP_apply_action(S, acts[p]),
                          WSP_apply_action(T, bcts[q]))

\* C25: two puzzle states that are equal and have the same capacity agree
\* on the goal test, and every legal action of either has a legal action of
\* the other that leads to an equal successor.
C25_EqualStatesAlike ==
    (call.op = "eq" /\ call.ret = TRUE
        /\ call.receiver.max_tube_capacity = call.other.max_tube_capacity) =>
        /\ WSP_is_goal(call.receiver) = WSP_is_goal(call.other)
        /\ Simulates(call.receiver, call.other)
        /\ Simulates(call.other, call.receiver)

\* a state was found equal to one that holds its containers in another
\* index order, so that some legal action of the one is not legal in the
\* other
C25_Witness ==
    /\ call.op = "eq"
    /\ call.ret = TRUE
    /\ call.receiver.max_tube_capacity = call.other.max_tube_capacity
    /\ call.other.tubes # call.receiver.tubes
    /\ \E a \in ActionArgs :
          /\ a.from_tube # a.to_tube
          /\ WSP_is_valid_action(call.receiver, a)
          /\ ~WSP_is_valid_action(call.other, a)
          /\ WSP_apply_action(call.receiver, a).tubes # call.receiver.tubes

====
